---------------------------- MODULE Spec2Model ----------------------------
(***************************************************************************)
(* A model of the alignment code of bio_utils.  From src/src/sam.rs: the   *)
(* coverage aggregator (Sam::to_coverage, Sam::get_range, Coverage::merge, *)
(* combine_sam, merge_two_coverages, the rayon fold/reduce of              *)
(* into_coverage), the CIGAR codec (parse_cigar_string, Op::as_str) and    *)
(* recover_alignment and Sam::mapped_region.  From src/src/lasttab.rs:     *)
(* try_from, LastTAB::from_line with AlignInfo::from_splits and            *)
(* Op::from_string, the forward projections and the equality of LastTAB.   *)
(* From src/src/fasta.rs: Reader::read under Records::next.                *)
(*                                                                         *)
(* Text is a sequence of one-character strings, a reference name is a      *)
(* sequence of byte values (String::cmp is the lexicographic order of the  *)
(* bytes), a Coverage is [r_name, cov] with cov a sequence of              *)
(* <<position, depth>> pairs, a table is a sequence of Coverage values.    *)
(* usize arithmetic is modelled on the naturals: the bounded inputs stay   *)
(* far below 2^64.                                                         *)
(***************************************************************************)
EXTENDS Naturals, Integers, Sequences, FiniteSets, Bags, TLC

VARIABLES
    reads,   \* the slice &[Sam] given to into_coverage
    todo,    \* indices of reads no worker has folded yet
    parts,   \* bag of fold accumulators [tab, src]; src is the history of folded indices
    joined,  \* history: reduce steps that combined two accumulators that both folded records
    result,  \* the table into_coverage returns
    pc,      \* position of the computation
    arg,     \* inputs of a single call of one of the functions
    ret      \* what that call returned

vars == <<reads, todo, parts, joined, result, pc, arg, ret>>

aggVars == <<reads, todo, parts, joined, result>>

---------------------------------------------------------------------------
(* Bounds of the model.                                                    *)

NumReads == 3

NumWorkers == 2

MaxOps == 2

MaxLen == 2

MaxPos == 2

MaxCovPos == 3

MaxDepth == 1

---------------------------------------------------------------------------
(* Text and numbers.                                                       *)

Digits == <<"0", "1", "2", "3", "4", "5", "6", "7", "8", "9">>

IsAsciiDigit(x) == \E d \in 1..10 : Digits[d] = x

DigitValue(x) == (CHOOSE d \in 1..10 : Digits[d] = x) - 1

RECURSIVE ToDecimal(_)
ToDecimal(n) ==
    IF n < 10 THEN <<Digits[n + 1]>>
    ELSE Append(ToDecimal(n \div 10), Digits[(n % 10) + 1])

RECURSIVE StrCmp(_, _)
StrCmp(s, t) ==
    IF s = <<>> THEN (IF t = <<>> THEN "Equal" ELSE "Less")
    ELSE IF t = <<>> THEN "Greater"
    ELSE IF Head(s) < Head(t) THEN "Less"
    ELSE IF Head(s) > Head(t) THEN "Greater"
    ELSE StrCmp(Tail(s), Tail(t))

---------------------------------------------------------------------------
(* sam::Op and the CIGAR text.                                             *)

OpKinds ==
    {"Align", "Insertion", "Deletion", "Skipped", "SoftClip", "HardClip",
     "Padding", "Match", "Mismatch"}

MkOp(kind, num) == [op |-> kind, len |-> num]

NoOp == [op |-> "None", len |-> 0]

\* Op::from with the arms of 'M' and '=' exchanged.
OpFromSwapped(num, x) ==
    CASE x = "M" -> MkOp("Match", num)
      [] x = "I" -> MkOp("Insertion", num)
      [] x = "D" -> MkOp("Deletion", num)
      [] x = "N" -> MkOp("Skipped", num)
      [] x = "S" -> MkOp("SoftClip", num)
      [] x = "H" -> MkOp("HardClip", num)
      [] x = "P" -> MkOp("Padding", num)
      [] x = "=" -> MkOp("Align", num)
      [] x = "X" -> MkOp("Mismatch", num)
      [] OTHER -> NoOp

OpFrom(num, x) ==
    CASE x = "M" -> MkOp("Align", num)
      [] x = "I" -> MkOp("Insertion", num)
      [] x = "D" -> MkOp("Deletion", num)
      [] x = "N" -> MkOp("Skipped", num)
      [] x = "S" -> MkOp("SoftClip", num)
      [] x = "H" -> MkOp("HardClip", num)
      [] x = "P" -> MkOp("Padding", num)
      [] x = "=" -> MkOp("Match", num)
      [] x = "X" -> MkOp("Mismatch", num)
      [] OTHER -> NoOp

OpLetter(kind) ==
    CASE kind = "Align" -> "M"
      [] kind = "Insertion" -> "I"
      [] kind = "Deletion" -> "D"
      [] kind = "Skipped" -> "N"
      [] kind = "SoftClip" -> "S"
      [] kind = "HardClip" -> "H"
      [] kind = "Padding" -> "P"
      [] kind = "Match" -> "="
      [] kind = "Mismatch" -> "X"

OpAsStr(o) == Append(ToDecimal(o.len), OpLetter(o.op))

\* num = 0 moved inside the `if let Some(res)`: an unknown letter keeps the count.
ParseResetOnOp(num, res) == IF res # NoOp THEN 0 ELSE num

ParseReset(num, res) == 0

RECURSIVE ParseCigarLoop(_, _, _)
ParseCigarLoop(ops, num, text) ==
    IF text = <<>> THEN ops
    ELSE LET x == Head(text) IN
         IF IsAsciiDigit(x)
         THEN ParseCigarLoop(ops, 10 * num + DigitValue(x), Tail(text))
         ELSE LET res == OpFrom(num, x) IN
              ParseCigarLoop(IF res # NoOp THEN Append(ops, res) ELSE ops,
                             ParseReset(num, res), Tail(text))

parse_cigar_string(cigar) == ParseCigarLoop(<<>>, 0, cigar)

RECURSIVE CigarText(_)
CigarText(ops) ==
    IF ops = <<>> THEN <<>> ELSE OpAsStr(Head(ops)) \o CigarText(Tail(ops))

---------------------------------------------------------------------------
(* Sam::get_range and Sam::to_coverage.                                    *)

MkSam(name, p, text) == [r_name |-> name, pos |-> p, cigar |-> text]

\* get_range with the Mismatch runs left out of the reference length.
RangeLenNoMismatch(o) ==
    IF o.op \in {"Align", "Match", "Deletion", "Skipped"}
    THEN o.len ELSE 0

RangeLen(o) ==
    IF o.op \in {"Align", "Match", "Deletion", "Skipped", "Mismatch"}
    THEN o.len ELSE 0

RECURSIVE SumRangeLen(_)
SumRangeLen(ops) ==
    IF ops = <<>> THEN 0 ELSE RangeLen(Head(ops)) + SumRangeLen(Tail(ops))

get_range(sam) ==
    LET start == sam.pos IN
    IF start = 0 THEN <<0, 0>>
    ELSE LET len == SumRangeLen(parse_cigar_string(sam.cigar)) IN
         <<start - 1, start + len - 1>>

\* to_coverage with Mismatch in the arm that leaves the cursor alone.
CoverageStepMismatchStays(st, o) ==
    CASE o.op \in {"Align", "Match"} ->
            [start |-> st.start + o.len,
             cov |-> st.cov \o [i \in 1..o.len |-> <<st.start + (i - 1), 1>>]]
      [] o.op \in {"Insertion", "SoftClip", "HardClip", "Padding", "Mismatch"} -> st
      [] o.op \in {"Deletion", "Skipped"} ->
            [st EXCEPT !.start = st.start + o.len]

\* to_coverage with Insertion in the arm that advances the cursor.
CoverageStepInsertionMoves(st, o) ==
    CASE o.op \in {"Align", "Match"} ->
            [start |-> st.start + o.len,
             cov |-> st.cov \o [i \in 1..o.len |-> <<st.start + (i - 1), 1>>]]
      [] o.op \in {"SoftClip", "HardClip", "Padding"} -> st
      [] o.op \in {"Deletion", "Skipped", "Mismatch", "Insertion"} ->
            [st EXCEPT !.start = st.start + o.len]

CoverageStep(st, o) ==
    CASE o.op \in {"Align", "Match"} ->
            [start |-> st.start + o.len,
             cov |-> st.cov \o [i \in 1..o.len |-> <<st.start + (i - 1), 1>>]]
      [] o.op \in {"Insertion", "SoftClip", "HardClip", "Padding"} -> st
      [] o.op \in {"Deletion", "Skipped", "Mismatch"} ->
            [st EXCEPT !.start = st.start + o.len]

RECURSIVE CoverageWalk(_, _)
CoverageWalk(st, ops) ==
    IF ops = <<>> THEN st
    ELSE CoverageWalk(CoverageStep(st, Head(ops)), Tail(ops))

CoverageStart(sam) == [start |-> sam.pos, cov |-> <<>>]

to_coverage(sam) ==
    [r_name |-> sam.r_name,
     cov |-> CoverageWalk(CoverageStart(sam), parse_cigar_string(sam.cigar)).cov]

---------------------------------------------------------------------------
(* Coverage::merge.                                                        *)

Panic == [panic |-> "merging"]

IsPanic(x) == "panic" \in DOMAIN x

\* The Equal arm pushing the entry of self, the other depth dropped.
MergeEqualKeepSelf(s, c) == <<s[1], s[2]>>

MergeEqual(s, c) == <<s[1], s[2] + c[2]>>

\* The loop's exit without res.extend(coviter).
MergeRestSelfOnly(res, selfiter, coviter) == res \o selfiter

MergeRest(res, selfiter, coviter) == res \o selfiter \o coviter

RECURSIVE MergeLoop(_, _, _)
MergeLoop(res, selfiter, coviter) ==
    IF selfiter # <<>> /\ coviter # <<>>
    THEN LET s == Head(selfiter)
             c == Head(coviter)
         IN  IF s[1] < c[1] THEN MergeLoop(Append(res, s), Tail(selfiter), coviter)
             ELSE IF s[1] > c[1] THEN MergeLoop(Append(res, c), selfiter, Tail(coviter))
             ELSE MergeLoop(Append(res, MergeEqual(s, c)), Tail(selfiter), Tail(coviter))
    ELSE MergeRest(res, selfiter, coviter)

\* merge as a concatenation of the two entry lists.
MergeConcat(self, cov) ==
    IF self.r_name # cov.r_name THEN Panic
    ELSE [r_name |-> self.r_name, cov |-> self.cov \o cov.cov]

\* merge without the comparison of the reference names.
MergeUnchecked(self, cov) ==
    [r_name |-> self.r_name, cov |-> MergeLoop(<<>>, self.cov, cov.cov)]

merge(self, cov) ==
    IF self.r_name # cov.r_name THEN Panic
    ELSE [r_name |-> self.r_name, cov |-> MergeLoop(<<>>, self.cov, cov.cov)]

---------------------------------------------------------------------------
(* merge_two_coverages and combine_sam.                                    *)

\* The Equal arm pushing a's Coverage, b's dropped.
TwoEqualKeepA(acov, bcov) == acov

TwoEqual(acov, bcov) == merge(acov, bcov)

RECURSIVE TwoLoop(_, _, _)
TwoLoop(res, aiter, biter) ==
    IF aiter # <<>> /\ biter # <<>>
    THEN LET ord == StrCmp(Head(aiter).r_name, Head(biter).r_name) IN
         CASE ord = "Less" -> TwoLoop(Append(res, Head(aiter)), Tail(aiter), biter)
           [] ord = "Greater" -> TwoLoop(Append(res, Head(biter)), aiter, Tail(biter))
           [] ord = "Equal" ->
                TwoLoop(Append(res, TwoEqual(Head(aiter), Head(biter))),
                        Tail(aiter), Tail(biter))
    ELSE res \o aiter \o biter

merge_two_coverages(a, b) == TwoLoop(<<>>, a, b)

\* slice::binary_search_by with indices counted from 0, as the library does.
RECURSIVE BinarySearchLoop(_, _, _, _, _)
BinarySearchLoop(acc, name, size, left, right) ==
    IF left < right
    THEN LET mid == left + (size \div 2)
             ord == StrCmp(acc[mid + 1].r_name, name)
         IN  CASE ord = "Less" -> BinarySearchLoop(acc, name, right - (mid + 1), mid + 1, right)
               [] ord = "Greater" -> BinarySearchLoop(acc, name, mid - left, left, mid)
               [] ord = "Equal" -> [found |-> TRUE, index |-> mid]
    ELSE [found |-> FALSE, index |-> left]

BinarySearch(acc, name) == BinarySearchLoop(acc, name, Len(acc), 0, Len(acc))

\* acc.push in place of acc.insert(index, ..).
InsertAtEnd(acc, index, x) == Append(acc, x)

InsertAt(acc, index, x) ==
    SubSeq(acc, 1, index) \o <<x>> \o SubSeq(acc, index + 1, Len(acc))

combine_sam(acc, sam) ==
    LET r == BinarySearch(acc, sam.r_name) IN
    IF r.found
    THEN [acc EXCEPT ![r.index + 1] = merge(acc[r.index + 1], to_coverage(sam))]
    ELSE InsertAt(acc, r.index, to_coverage(sam))

---------------------------------------------------------------------------
(* The records the aggregation is run on.                                  *)

NameA == <<65>>

NameAB == <<65, 66>>

NameB == <<66>>

RefNames == {NameA, NameAB, NameB}

SamPool ==
    << MkSam(NameA, 1, <<"2", "M">>),
       MkSam(NameA, 2, <<"1", "M", "1", "D", "1", "=">>),
       MkSam(NameA, 1, <<"1", "S", "1", "X", "1", "M">>),
       MkSam(NameA, 0, <<"1", "M">>),
       MkSam(NameAB, 1, <<"1", "I", "2", "M">>),
       MkSam(NameAB, 0, <<"*">>),
       MkSam(NameB, 2, <<"1", "=", "1", "N", "1", "M">>),
       MkSam(NameB, 3, <<"1", "M", "1", "P", "1", "H">>),
       MkSam(NameB, 1, <<"3", "M">>),
       MkSam(NameAB, 2, <<"1", "M", "1", "=">>),
       MkSam(NameA, 3, <<"1", "H", "2", "M", "1", "S">>) >>

ReadLists ==
    UNION { { [i \in 1..n |-> SamPool[f[i]]] :
                f \in { g \in [1..n -> 1..Len(SamPool)] :
                          \A i \in 1..n, j \in 1..n : i < j => g[i] <= g[j] } } :
            n \in 0..NumReads }

---------------------------------------------------------------------------
(* into_coverage: reads.par_iter().fold(Vec::new, combine_sam)             *)
(*                     .reduce(Vec::new, merge_two_coverages).             *)
(* Every worker owns one accumulator, created by Vec::new.  A fold step    *)
(* gives any record not yet folded to any worker, which covers every split *)
(* of the slice and every order inside a split; a reduce step combines any *)
(* two accumulators, in either operand order.  rayon reduces two           *)
(* accumulators once both are complete; as accumulators share no state,    *)
(* the reduce steps are taken after the fold steps.                        *)

NewPart == [tab |-> <<>>, src |-> {}]

One(x) == SetToBag({x})

AggInit ==
    /\ reads \in ReadLists
    /\ todo = 1..Len(reads)
    /\ parts = [x \in {NewPart} |-> NumWorkers]
    /\ joined = 0
    /\ result = <<>>

Fold ==
    /\ pc = "run"
    /\ \E i \in todo, w \in BagToSet(parts) :
          /\ parts' = (parts (-) One(w))
                        (+) One([tab |-> combine_sam(w.tab, reads[i]),
                                 src |-> w.src \cup {i}])
          /\ todo' = todo \ {i}
    /\ UNCHANGED <<reads, joined, result, pc, arg, ret>>

Reduce ==
    /\ pc = "run"
    /\ todo = {}
    /\ \E a \in BagToSet(parts), b \in BagToSet(parts) :
          /\ a # b \/ CopiesIn(a, parts) >= 2
          /\ parts' = ((parts (-) One(a)) (-) One(b))
                        (+) One([tab |-> merge_two_coverages(a.tab, b.tab),
                                 src |-> a.src \cup b.src])
          /\ joined' = IF a.src # {} /\ b.src # {} THEN joined + 1 ELSE joined
    /\ UNCHANGED <<reads, todo, result, pc, arg, ret>>

Finish ==
    /\ pc = "run"
    /\ todo = {}
    /\ BagCardinality(parts) = 1
    /\ \E w \in BagToSet(parts) : result' = w.tab
    /\ pc' = "done"
    /\ UNCHANGED <<reads, todo, parts, joined, arg, ret>>

Init ==
    /\ AggInit
    /\ pc = "run"
    /\ arg = <<>>
    /\ ret = <<>>

Next == Fold \/ Reduce \/ Finish

Spec == Init /\ [][Next]_vars

---------------------------------------------------------------------------
(* Single calls of Sam::to_coverage and Sam::get_range on one record.      *)

OpSet == { MkOp(k, n) : k \in OpKinds, n \in 1..MaxLen }

OpLists == UNION { [1..n -> OpSet] : n \in 0..MaxOps }

\* The record of the documented example: one Match run of 5 bases at position 10.
ExampleSam == MkSam(NameA, 10, CigarText(<<MkOp("Match", 5)>>))

AggIdle ==
    /\ reads = <<>>
    /\ todo = {}
    /\ parts = EmptyBag
    /\ joined = 0
    /\ result = <<>>

CovInit ==
    /\ AggIdle
    /\ pc = "ready"
    /\ \/ \E p \in 0..MaxPos, ops \in OpLists : arg = MkSam(NameA, p, CigarText(ops))
       \/ arg = ExampleSam
    /\ ret = <<>>

CallToCoverage ==
    /\ pc = "ready"
    /\ ret' = to_coverage(arg)
    /\ pc' = "to_coverage"
    /\ UNCHANGED <<aggVars, arg>>

CallGetRange ==
    /\ pc = "ready"
    /\ ret' = get_range(arg)
    /\ pc' = "get_range"
    /\ UNCHANGED <<aggVars, arg>>

CovNext == CallToCoverage \/ CallGetRange

SpecCov == CovInit /\ [][CovNext]_vars

---------------------------------------------------------------------------
(* Single calls of Coverage::merge.  merge is private: its callers hand it *)
(* values made by to_coverage and merge, whose positions ascend strictly   *)
(* and whose depths are at least 1.                                        *)

RECURSIVE CovOf(_, _)
CovOf(S, d) ==
    IF S = {} THEN <<>>
    ELSE LET m == CHOOSE x \in S : \A y \in S : x <= y IN
         <<<<m, d[m]>>>> \o CovOf(S \ {m}, d)

CovLists ==
    UNION { { CovOf(S, d) : d \in [S -> 1..MaxDepth] } : S \in SUBSET (1..MaxCovPos) }

MkCoverage(name, list) == [r_name |-> name, cov |-> list]

MergeInput(n, m, x, y, z) ==
    [a |-> MkCoverage(n, x), b |-> MkCoverage(m, y), c |-> MkCoverage(n, z)]

\* A panic unwinds through the caller: a call on a panicked operand is never made.
MergeThen(x, y) == IF IsPanic(x) \/ IsPanic(y) THEN Panic ELSE merge(x, y)

MergeInit ==
    /\ AggIdle
    /\ pc = "ready"
    /\ \E x \in CovLists, y \in CovLists :
          \/ \E z \in CovLists : arg = MergeInput(NameA, NameA, x, y, z)
          \/ \E n \in {NameA, NameAB} : arg = MergeInput(n, NameB, x, y, <<>>)
    /\ ret = <<>>

CallMerge ==
    /\ pc = "ready"
    /\ ret' = [ab |-> merge(arg.a, arg.b),
               ba |-> merge(arg.b, arg.a),
               ab_c |-> MergeThen(merge(arg.a, arg.b), arg.c),
               a_bc |-> MergeThen(arg.a, merge(arg.b, arg.c))]
    /\ pc' = IF IsPanic(ret'.ab) THEN "panicked" ELSE "merged"
    /\ UNCHANGED <<aggVars, arg>>

MergeNext == CallMerge

SpecMerge == MergeInit /\ [][MergeNext]_vars

---------------------------------------------------------------------------
(* Properties of the aggregation (specification Spec).                     *)

RECURSIVE FoldInOrder(_, _)
FoldInOrder(acc, rs) ==
    IF rs = <<>> THEN acc
    ELSE FoldInOrder(combine_sam(acc, Head(rs)), Tail(rs))

Entries(tab) ==
    UNION { { <<k, j>> : j \in 1..Len(tab[k].cov) } : k \in 1..Len(tab) }

MaxDepthIn(tab) ==
    LET ds == { tab[e[1]].cov[e[2]][2] : e \in Entries(tab) } IN
    IF ds = {} THEN 0 ELSE CHOOSE d \in ds : \A x \in ds : x <= d

StrictlyAscending(cov) ==
    \A j \in 1..Len(cov) - 1 : cov[j][1] < cov[j + 1][1]

WellFormed(c) ==
    /\ StrictlyAscending(c.cov)
    /\ \A j \in 1..Len(c.cov) : c.cov[j][2] >= 1

\* C4: every Coverage made by to_coverage, merge, combine_sam,
\* merge_two_coverages or into_coverage has strictly increasing positions and
\* depths of at least 1.
C4_CoverageWellFormed ==
    /\ \A i \in 1..Len(reads) : WellFormed(to_coverage(reads[i]))
    /\ \A w \in BagToSet(parts) : \A k \in 1..Len(w.tab) : WellFormed(w.tab[k])
    /\ \A k \in 1..Len(result) : WellFormed(result[k])

C4_Witness ==
    /\ pc = "done"
    /\ \E k \in 1..Len(result) :
          /\ Len(result[k].cov) >= 3
          /\ \E j \in 1..Len(result[k].cov) : result[k].cov[j][2] >= 2
          /\ \E j \in 1..Len(result[k].cov) : result[k].cov[j][2] = 1

\* The bases a record touches, stated without the walk: run k is a Match or
\* Align run and p lies in it, the run starting at the mapped position plus the
\* lengths of the reference-consuming runs before it.
ConsumesReference(o) ==
    o.op \in {"Align", "Match", "Mismatch", "Deletion", "Skipped"}

ConsumedBefore(ops, k) ==
    LET S == { j \in 1..(k - 1) : ConsumesReference(ops[j]) }
        f[T \in SUBSET S] ==
            IF T = {} THEN 0
            ELSE LET j == CHOOSE x \in T : TRUE IN ops[j].len + f[T \ {j}]
    IN  f[S]

Touches(sam, p) ==
    LET ops == parse_cigar_string(sam.cigar) IN
    \E k \in 1..Len(ops) :
        /\ ops[k].op \in {"Align", "Match"}
        /\ sam.pos + ConsumedBefore(ops, k) <= p
        /\ p < sam.pos + ConsumedBefore(ops, k) + ops[k].len

Touching(r, p) ==
    { i \in 1..Len(reads) : reads[i].r_name = r /\ Touches(reads[i], p) }

EntriesAt(tab, r, p) ==
    { e \in Entries(tab) : tab[e[1]].r_name = r /\ tab[e[1]].cov[e[2]][1] = p }

\* No record of the pool reaches beyond its position plus all its run lengths.
RECURSIVE SumLen(_)
SumLen(ops) == IF ops = <<>> THEN 0 ELSE Head(ops).len + SumLen(Tail(ops))

Reach(sam) == sam.pos + SumLen(parse_cigar_string(sam.cigar))

PoolReach ==
    LET rs == { Reach(SamPool[i]) : i \in 1..Len(SamPool) } IN
    CHOOSE m \in rs : \A x \in rs : x <= m

PositionsOfInterest == 0..PoolReach

\* C5: in the table into_coverage returns, an entry for position p under
\* reference r exists exactly when some input record on r touches p, and its
\* depth is the number of input records on r that touch p.
C5_DepthCountsAlignments ==
    pc = "done" =>
        /\ \A r \in RefNames, p \in PositionsOfInterest :
            LET n == Cardinality(Touching(r, p))
                es == EntriesAt(result, r, p)
            IN  /\ (n = 0) <=> (es = {})
                /\ n > 0 => /\ Cardinality(es) = 1
                            /\ \A e \in es : result[e[1]].cov[e[2]][2] = n
        /\ \A e \in Entries(result) :
              /\ result[e[1]].r_name \in RefNames
              /\ result[e[1]].cov[e[2]][1] \in PositionsOfInterest

C5_Witness ==
    /\ pc = "done"
    /\ \E r \in RefNames :
          /\ \E p \in PositionsOfInterest : Cardinality(Touching(r, p)) >= 2
          /\ \E p \in PositionsOfInterest :
                /\ Cardinality(Touching(r, p)) = 0
                /\ Cardinality(Touching(r, p + 1)) >= 1
                /\ p >= 1 /\ Cardinality(Touching(r, p - 1)) >= 1

NamesOf(tab) == { tab[k].r_name : k \in 1..Len(tab) }

NamesAscending(tab) ==
    \A k \in 1..Len(tab) - 1 : StrCmp(tab[k].r_name, tab[k + 1].r_name) = "Less"

\* C9: every accumulator and the returned table are strictly ascending by
\* reference name and hold one Coverage for each reference name of the records
\* folded into them, and for no other name.
C9_TableSortedByName ==
    /\ \A w \in BagToSet(parts) :
          /\ NamesAscending(w.tab)
          /\ NamesOf(w.tab) = { reads[i].r_name : i \in w.src }
    /\ pc = "done" =>
          /\ NamesAscending(result)
          /\ NamesOf(result) = { reads[i].r_name : i \in 1..Len(reads) }

C9_Witness ==
    /\ pc = "done"
    /\ Len(result) = 2
    /\ Len(reads) = 3
    /\ joined >= 1
    /\ \E w \in BagToSet(parts) : w.src = 1..Len(reads)

---------------------------------------------------------------------------
(* Properties of to_coverage and get_range (specification SpecCov).        *)

Decoded == parse_cigar_string(arg.cigar)

WalkAfter(k) == CoverageWalk(CoverageStart(arg), SubSeq(Decoded, 1, k))

Run(c, l) == [i \in 1..l |-> <<c + (i - 1), 1>>]

\* C6: the walk starts at the record's pos; a Match or Align run of length L
\* at cursor C appends (C,1), .., (C+L-1,1) and moves the cursor by L; a
\* Deletion or Skipped run moves the cursor by L and appends nothing; an
\* Insertion, SoftClip, HardClip or Padding run changes nothing; what
\* to_coverage returns is the list the walk ends with.  One Match run of 5 at
\* position 10 gives the positions 10..14, each with depth 1.
C6_WalkRule ==
    pc = "to_coverage" =>
        /\ WalkAfter(0) = [start |-> arg.pos, cov |-> <<>>]
        /\ \A k \in 1..Len(Decoded) :
              LET o == Decoded[k]
                  before == WalkAfter(k - 1)
                  after == WalkAfter(k)
              IN  /\ o.op \in {"Match", "Align"} =>
                        /\ after.cov = before.cov \o Run(before.start, o.len)
                        /\ after.start = before.start + o.len
                  /\ o.op \in {"Deletion", "Skipped"} =>
                        /\ after.cov = before.cov
                        /\ after.start = before.start + o.len
                  /\ o.op \in {"Insertion", "SoftClip", "HardClip", "Padding"} =>
                        after = before
        /\ ret.cov = WalkAfter(Len(Decoded)).cov
        /\ ret.r_name = arg.r_name
        /\ arg = ExampleSam =>
              ret.cov = <<<<10, 1>>, <<11, 1>>, <<12, 1>>, <<13, 1>>, <<14, 1>>>>

C6_Witness ==
    /\ pc = "to_coverage"
    /\ Len(Decoded) = 2
    /\ Decoded[1].op = "Insertion"
    /\ Decoded[2] = MkOp("Align", 2)
    /\ arg.pos = 2
    /\ Len(ret.cov) = 2

\* C7: for a mapped record (pos >= 1) every position to_coverage reports lies
\* in [pos, pos + R), R the reference length get_range computes.
C7_CoverageInsideRange ==
    (pc = "to_coverage" /\ arg.pos >= 1) =>
        LET rng == get_range(arg)
            R == rng[2] - rng[1]
        IN  \A j \in 1..Len(ret.cov) :
                /\ arg.pos <= ret.cov[j][1]
                /\ ret.cov[j][1] < arg.pos + R

C7_Witness ==
    /\ pc = "to_coverage"
    /\ arg.pos >= 1
    /\ Len(Decoded) = 2
    /\ Decoded[1].op = "Mismatch"
    /\ Decoded[2].op = "Match"
    /\ ret.cov # <<>>
    /\ ret.cov[Len(ret.cov)][1] = arg.pos + (get_range(arg)[2] - get_range(arg)[1]) - 1

\* C8: a record whose pos is 0 has an empty coverage, whatever its CIGAR.
C8_UnmappedIsEmpty ==
    (pc = "to_coverage" /\ arg.pos = 0) => ret.cov = <<>>

---------------------------------------------------------------------------
(* Properties of Coverage::merge (specification SpecMerge).                *)

PositionsIn(c) == { c.cov[j][1] : j \in 1..Len(c.cov) }

DepthIn(c, p) ==
    IF p \in PositionsIn(c)
    THEN LET j == CHOOSE x \in 1..Len(c.cov) : c.cov[x][1] = p IN c.cov[j][2]
    ELSE 0

\* C2: on tables of one reference name merge is commutative and associative.
C2_MergeCommutesAssociates ==
    (pc # "ready" /\ arg.a.r_name = arg.b.r_name /\ arg.b.r_name = arg.c.r_name) =>
        /\ pc = "merged"
        /\ ret.ab = ret.ba
        /\ ret.ab_c = ret.a_bc

C2_Witness ==
    /\ pc = "merged"
    /\ arg.a.r_name = arg.c.r_name
    /\ Len(arg.a.cov) = 2 /\ Len(arg.b.cov) = 1 /\ Len(arg.c.cov) = 2
    /\ arg.a # arg.c
    /\ PositionsIn(arg.b) \subseteq PositionsIn(arg.a)
    /\ ret.ab_c # ret.ab

\* C3: merge of two ascending tables of one reference name is a sorted merge:
\* its positions are those of either input, a position of one input keeps that
\* input's depth, a position of both has the sum of the two depths, and the
\* positions ascend strictly.
C3_SortedMerge ==
    (pc # "ready" /\ arg.a.r_name = arg.b.r_name) =>
        /\ ~IsPanic(ret.ab)
        /\ ret.ab.r_name = arg.a.r_name
        /\ PositionsIn(ret.ab) = PositionsIn(arg.a) \cup PositionsIn(arg.b)
        /\ \A p \in PositionsIn(ret.ab) :
              DepthIn(ret.ab, p) = DepthIn(arg.a, p) + DepthIn(arg.b, p)
        /\ StrictlyAscending(ret.ab.cov)

C3_Witness ==
    /\ pc = "merged"
    /\ PositionsIn(arg.a) \ PositionsIn(arg.b) # {}
    /\ PositionsIn(arg.b) \ PositionsIn(arg.a) # {}
    /\ \E p \in PositionsIn(arg.a) \cap PositionsIn(arg.b) :
          DepthIn(ret.ab, p) = 2

\* C10: merge on tables of different reference names panics and returns no
\* Coverage.
C10_MergePanicsOnNames ==
    (pc # "ready" /\ arg.a.r_name # arg.b.r_name) =>
        /\ pc = "panicked"
        /\ ret.ab = Panic
        /\ ret.ba = Panic

C10_Witness ==
    /\ pc = "panicked"
    /\ arg.a.r_name # arg.b.r_name
    /\ arg.a.cov # <<>>
    /\ arg.b.cov # <<>>

---------------------------------------------------------------------------
(* Single calls of Op::as_str and parse_cigar_string (specification        *)
(* SpecCigar).  A run starts either from a text over CigarAlphabet, or     *)
(* from a list of operations that Op::as_str turns into a text first.      *)

MaxText == 3

CigarAlphabet ==
    {"0", "1", "2", "M", "I", "D", "N", "S", "H", "P", "=", "X", "*", "Z"}

Texts == UNION { [1..n -> CigarAlphabet] : n \in 0..MaxText }

\* The text of the repository's test cigar_parse.
ExampleCigar == <<"1", "0", "1", "S", "3", "3", "M", "2", "I", "6", "6", "M">>

\* Run lengths: zero, the small ones, and lengths of two and three digits.
EncodeLens == (0..MaxLen) \cup {10, 101}

EncodeOps == { MkOp(k, n) : k \in OpKinds, n \in EncodeLens }

CigarInit ==
    /\ AggIdle
    /\ ret = <<>>
    /\ \/ /\ pc = "ready"
          /\ \/ \E t \in Texts : arg = [from |-> "text", ops |-> <<>>, text |-> t]
             \/ arg = [from |-> "text", ops |-> <<>>, text |-> ExampleCigar]
       \/ /\ pc = "encode"
          /\ \E n \in 0..MaxOps : \E ops \in [1..n -> EncodeOps] :
                arg = [from |-> "ops", ops |-> ops, text |-> <<>>]

CallAsStr ==
    /\ pc = "encode"
    /\ arg' = [arg EXCEPT !.text = CigarText(arg.ops)]
    /\ pc' = "ready"
    /\ UNCHANGED <<aggVars, ret>>

CallParseCigarString ==
    /\ pc = "ready"
    /\ ret' = parse_cigar_string(arg.text)
    /\ pc' = "parsed"
    /\ UNCHANGED <<aggVars, arg>>

CigarNext == CallAsStr \/ CallParseCigarString

SpecCigar == CigarInit /\ [][CigarNext]_vars

---------------------------------------------------------------------------
(* Properties of parse_cigar_string and Op::as_str (specification          *)
(* SpecCigar).  The decoding is stated here without the scan: every        *)
(* non-digit byte ends a run, the run's number is the decimal value of the *)
(* digits since the previous non-digit byte.                               *)

DigitChars == {"0", "1", "2", "3", "4", "5", "6", "7", "8", "9"}

ValueOf(ch) ==
    CASE ch = "0" -> 0 [] ch = "1" -> 1 [] ch = "2" -> 2 [] ch = "3" -> 3
      [] ch = "4" -> 4 [] ch = "5" -> 5 [] ch = "6" -> 6 [] ch = "7" -> 7
      [] ch = "8" -> 8 [] ch = "9" -> 9

KindOfLetter ==
    [l \in {"M", "I", "D", "N", "S", "H", "P", "=", "X"} |->
        CASE l = "M" -> "Align" [] l = "I" -> "Insertion" [] l = "D" -> "Deletion"
          [] l = "N" -> "Skipped" [] l = "S" -> "SoftClip" [] l = "H" -> "HardClip"
          [] l = "P" -> "Padding" [] l = "=" -> "Match" [] l = "X" -> "Mismatch"]

LettersOf(t) == { i \in 1..Len(t) : t[i] \notin DigitChars }

RunStart(t, i) ==
    LET earlier == { j \in LettersOf(t) : j < i } IN
    IF earlier = {} THEN 1
    ELSE (CHOOSE j \in earlier : \A x \in earlier : x <= j) + 1

\* The decimal value of the digits t[a..b]; 0 when there is none.
DecimalValue(t, a, b) ==
    LET v[j \in (a - 1)..b] ==
            IF j < a THEN 0 ELSE 10 * v[j - 1] + ValueOf(t[j])
    IN  v[b]

ExpectedOps(t) ==
    LET known == { i \in LettersOf(t) : t[i] \in DOMAIN KindOfLetter }
        nth(k) == CHOOSE i \in known : Cardinality({ j \in known : j <= i }) = k
    IN  [k \in 1..Cardinality(known) |->
            [op |-> KindOfLetter[t[nth(k)]],
             len |-> DecimalValue(t, RunStart(t, nth(k)), nth(k) - 1)]]

\* C11: parse_cigar_string emits, for every byte that is one of the nine
\* operation letters, one Op of that letter's kind whose length is the decimal
\* number since the previous non-digit byte, in text order; any other
\* non-digit byte emits nothing and its number is dropped.  "101S33M2I66M"
\* decodes to SoftClip(101), Align(33), Insertion(2), Align(66).
C11_ParseRule ==
    pc = "parsed" =>
        /\ ret = ExpectedOps(arg.text)
        /\ arg.text = ExampleCigar =>
              ret = << MkOp("SoftClip", 101), MkOp("Align", 33),
                       MkOp("Insertion", 2), MkOp("Align", 66) >>

C11_Witness ==
    /\ pc = "parsed"
    /\ arg.text = <<"2", "*", "M">>
    /\ ret = <<MkOp("Align", 0)>>

\* C12: decoding the concatenation of Op::as_str over a list of operations
\* gives the list back.
C12_RoundTrip ==
    (pc = "parsed" /\ arg.from = "ops") => ret = arg.ops

C12_Witness ==
    /\ pc = "parsed"
    /\ arg.from = "ops"
    /\ Len(arg.ops) = 2
    /\ arg.ops[1] = MkOp("Match", 101)
    /\ arg.ops[2] = MkOp("Align", 0)
    /\ Len(arg.text) = 6

\* C13: no Op that parse_cigar_string returns has length 0.
C13_NoZeroLengthRun ==
    pc = "parsed" => \A k \in 1..Len(ret) : ret[k].len > 0

---------------------------------------------------------------------------
(* recover_alignment and match_mismatch.  A row is a sequence of           *)
(* one-character strings.  An index past the end of a slice and iter[0] on *)
(* an empty list panic.  The start position is 1-based (pos >= 1).         *)

FieldWidth == 5

\* format!("{:05}", n): the decimal text of n, filled with zeros up to 5 characters.
Pad5(n) ==
    LET d == ToDecimal(n) IN
    IF Len(d) >= FieldWidth THEN d
    ELSE [i \in 1..(FieldWidth - Len(d)) |-> "0"] \o d

HeadText(n) == <<"[", "h", "e", "a", "d", " ">> \o Pad5(n) \o <<" ", "b", "a", "s", "e", "]">>

TailText(n) == <<"[", "t", "a", "i", "l", " ">> \o Pad5(n) \o <<" ", "b", "a", "s", "e", "]">>

\* The footer of the query row after a clip, as line 424 spells it.
ClipTailText(n) == <<"[", "t", "a", "i", "l", " ">> \o Pad5(n) \o <<" ", "b", "e", "s", "e", "]">>

IndexPanic == [panic |-> "index out of range"]

Fill(ch, len) == [i \in 1..len |-> ch]

empty_string(len) == Fill(" ", len)

InRange(seq, idx, l) == idx + l <= Len(seq)

Slice(seq, idx, l) == SubSeq(seq, idx + 1, idx + l)

match_mismatch(xs, ys) ==
    LET n == IF Len(xs) <= Len(ys) THEN Len(xs) ELSE Len(ys) IN
    [i \in 1..n |-> IF xs[i] = ys[i] THEN "|" ELSE "X"]

IsClip(o) == o.op \in {"SoftClip", "HardClip"}

RecoverStart(iter, pos) ==
    [seq1_with_gap |-> IF IsClip(iter[1]) THEN HeadText(iter[1].len) ELSE HeadText(0),
     operations |-> empty_string(Len(HeadText(0))),
     seq2_with_gap |-> HeadText(pos),
     seq1idx |-> IF IsClip(iter[1]) THEN iter[1].len ELSE 0,
     seq2idx |-> pos - 1,
     panic |-> FALSE]

Panicked(st) == [st EXCEPT !.panic = TRUE]

RecoverAlign(st, l, seq1, seq2) ==
    IF ~InRange(seq1, st.seq1idx, l) \/ ~InRange(seq2, st.seq2idx, l) THEN Panicked(st)
    ELSE [st EXCEPT
            !.seq1_with_gap = @ \o Slice(seq1, st.seq1idx, l),
            !.seq2_with_gap = @ \o Slice(seq2, st.seq2idx, l),
            !.operations = @ \o match_mismatch(Slice(seq1, st.seq1idx, l),
                                               Slice(seq2, st.seq2idx, l)),
            !.seq1idx = @ + l,
            !.seq2idx = @ + l]

\* The Deletion arm advancing the query cursor as well.
RecoverDeletionMovesQuery(st, l, seq2) ==
    IF ~InRange(seq2, st.seq2idx, l) THEN Panicked(st)
    ELSE [st EXCEPT
            !.seq1_with_gap = @ \o Fill("-", l),
            !.seq2_with_gap = @ \o Slice(seq2, st.seq2idx, l),
            !.operations = @ \o Fill(" ", l),
            !.seq1idx = @ + l,
            !.seq2idx = @ + l]

RecoverDeletion(st, l, seq2) ==
    IF ~InRange(seq2, st.seq2idx, l) THEN Panicked(st)
    ELSE [st EXCEPT
            !.seq1_with_gap = @ \o Fill("-", l),
            !.seq2_with_gap = @ \o Slice(seq2, st.seq2idx, l),
            !.operations = @ \o Fill(" ", l),
            !.seq2idx = @ + l]

RecoverInsertion(st, l, seq1) ==
    IF ~InRange(seq1, st.seq1idx, l) THEN Panicked(st)
    ELSE [st EXCEPT
            !.seq1_with_gap = @ \o Slice(seq1, st.seq1idx, l),
            !.seq2_with_gap = @ \o Fill("-", l),
            !.operations = @ \o Fill(" ", l),
            !.seq1idx = @ + l]

RecoverStep(st, o, seq1, seq2) ==
    IF st.panic THEN st
    ELSE CASE o.op = "Align" -> RecoverAlign(st, o.len, seq1, seq2)
           [] o.op = "Deletion" -> RecoverDeletion(st, o.len, seq2)
           [] o.op = "Insertion" -> RecoverInsertion(st, o.len, seq1)
           [] OTHER -> st

RECURSIVE RecoverWalk(_, _, _, _)
RecoverWalk(st, ops, seq1, seq2) ==
    IF ops = <<>> THEN st
    ELSE RecoverWalk(RecoverStep(st, Head(ops), seq1, seq2), Tail(ops), seq1, seq2)

\* seq2.len() - seq2idx below zero does not arise: pos - 1 <= seq2.len() in
\* every input, and a cursor moved past the end has panicked before.
RecoverFinish(st, iter, seq2) ==
    IF st.panic \/ st.seq2idx > Len(seq2) THEN IndexPanic
    ELSE LET last == iter[Len(iter)] IN
         [query |-> st.seq1_with_gap
                        \o (IF IsClip(last) THEN ClipTailText(last.len) ELSE TailText(0)),
          markers |-> st.operations \o empty_string(Len(TailText(0))),
          reference |-> st.seq2_with_gap \o TailText(Len(seq2) - st.seq2idx)]

recover_alignment(iter, seq1, seq2, pos) ==
    IF iter = <<>> THEN IndexPanic
    ELSE RecoverFinish(RecoverWalk(RecoverStart(iter, pos), iter, seq1, seq2), iter, seq2)

---------------------------------------------------------------------------
(* Single calls of recover_alignment (specification SpecRecover).          *)

QueryBases(n) == [i \in 1..n |-> <<"A", "C", "G", "T">>[((i - 1) % 4) + 1]]

RefBases(n) == [i \in 1..n |-> <<"A", "c", "C", "T", "G">>[((i - 1) % 5) + 1]]

Queries == {QueryBases(MaxOps * MaxLen), QueryBases(MaxLen)}

Reference == RefBases(MaxOps * MaxLen)

RECURSIVE Pow10(_)
Pow10(n) == IF n = 0 THEN 1 ELSE 10 * Pow10(n - 1)

\* The least number whose decimal text is wider than the {:05} field.
WideNumber == Pow10(FieldWidth)

WideClipLists ==
    { <<MkOp("Align", 1), MkOp("SoftClip", WideNumber)>>,
      <<MkOp("HardClip", WideNumber), MkOp("Deletion", 1)>>,
      <<MkOp("SoftClip", WideNumber - 1), MkOp("Deletion", 1)>> }

RecoverInit ==
    /\ AggIdle
    /\ pc = "ready"
    /\ ret = <<>>
    /\ \E p \in 1..MaxPos, q \in Queries :
          \E ops \in OpLists \cup WideClipLists :
              arg = [iter |-> ops, seq1 |-> q, seq2 |-> Reference, pos |-> p]

CallRecoverAlignment ==
    /\ pc = "ready"
    /\ ret' = recover_alignment(arg.iter, arg.seq1, arg.seq2, arg.pos)
    /\ pc' = IF IsPanic(ret') THEN "panicked" ELSE "recovered"
    /\ UNCHANGED <<aggVars, arg>>

RecoverNext == CallRecoverAlignment

SpecRecover == RecoverInit /\ [][RecoverNext]_vars

---------------------------------------------------------------------------
(* Claims about recover_alignment (specification SpecRecover).             *)

\* The walk of the current call after its first k operations.
RecoverAfter(k) ==
    RecoverWalk(RecoverStart(arg.iter, arg.pos), SubSeq(arg.iter, 1, k), arg.seq1, arg.seq2)

EndsWith(row, text) ==
    /\ Len(row) >= Len(text)
    /\ SubSeq(row, Len(row) - Len(text) + 1, Len(row)) = text

StartsWith(row, text) ==
    /\ Len(row) >= Len(text)
    /\ SubSeq(row, 1, Len(text)) = text

\* C14: whenever recover_alignment returns (non-empty operation list, cursors
\* inside both sequences), the padded query, the marker row and the padded
\* reference have the same length.
C14_RowsSameLength ==
    pc = "recovered" =>
        /\ Len(ret.query) = Len(ret.markers)
        /\ Len(ret.markers) = Len(ret.reference)

\* C15: every Match (=) run and every Align (M) run of length L advances both
\* cursors by L, copies L query bytes and L reference bytes from the cursors
\* into the padded rows, and appends L markers, the i-th being '|' when the
\* two bytes at offset i are equal and 'X' otherwise.
C15_MatchAndAlignRuns ==
    pc = "recovered" =>
        \A k \in 1..Len(arg.iter) :
            arg.iter[k].op \in {"Match", "Align"} =>
                LET b == RecoverAfter(k - 1)
                    a == RecoverAfter(k)
                    L == arg.iter[k].len
                IN  /\ a.seq1idx = b.seq1idx + L
                    /\ a.seq2idx = b.seq2idx + L
                    /\ a.seq1_with_gap = b.seq1_with_gap \o Slice(arg.seq1, b.seq1idx, L)
                    /\ a.seq2_with_gap = b.seq2_with_gap \o Slice(arg.seq2, b.seq2idx, L)
                    /\ a.operations = b.operations \o
                          [i \in 1..L |-> IF arg.seq1[b.seq1idx + i] = arg.seq2[b.seq2idx + i]
                                          THEN "|" ELSE "X"]

\* C16: a Deletion of length L appends L '-' to the query row, the next L
\* reference bytes to the reference row and L blank markers, and advances only
\* the reference cursor; an Insertion of length L appends the next L query
\* bytes to the query row, L '-' to the reference row and L blank markers, and
\* advances only the query cursor; Padding and Skipped runs change nothing.
C16_GapRuns ==
    pc = "recovered" =>
        \A k \in 1..Len(arg.iter) :
            LET b == RecoverAfter(k - 1)
                a == RecoverAfter(k)
                L == arg.iter[k].len
                o == arg.iter[k].op
            IN  /\ o = "Deletion" =>
                      /\ a.seq1idx = b.seq1idx
                      /\ a.seq2idx = b.seq2idx + L
                      /\ a.seq1_with_gap = b.seq1_with_gap \o [i \in 1..L |-> "-"]
                      /\ a.seq2_with_gap = b.seq2_with_gap \o
                            [i \in 1..L |-> arg.seq2[b.seq2idx + i]]
                      /\ a.operations = b.operations \o [i \in 1..L |-> " "]
                /\ o = "Insertion" =>
                      /\ a.seq1idx = b.seq1idx + L
                      /\ a.seq2idx = b.seq2idx
                      /\ a.seq1_with_gap = b.seq1_with_gap \o
                            [i \in 1..L |-> arg.seq1[b.seq1idx + i]]
                      /\ a.seq2_with_gap = b.seq2_with_gap \o [i \in 1..L |-> "-"]
                      /\ a.operations = b.operations \o [i \in 1..L |-> " "]
                /\ o \in {"Padding", "Skipped"} => a = b

\* A returned call on a Deletion of 2 followed by an Insertion of 1, from position 2.
C16_Witness ==
    /\ pc = "recovered"
    /\ arg.iter = <<MkOp("Deletion", 2), MkOp("Insertion", 1)>>
    /\ arg.pos = 2
    /\ arg.seq1 = QueryBases(MaxOps * MaxLen)
    /\ SubSeq(ret.query, Len(HeadText(0)) + 1, Len(HeadText(0)) + 3) = <<"-", "-", "A">>
    /\ SubSeq(ret.reference, Len(HeadText(0)) + 1, Len(HeadText(0)) + 3) = <<"c", "C", "-">>

\* C17: when the last operation is a clip of length l the query row ends with
\* "[tail NNNNN base]", NNNNN being l zero-padded to 5 digits; when it is not a
\* clip the query row ends with "[tail 00000 base]".
C17_TailAnnotation ==
    pc = "recovered" =>
        LET last == arg.iter[Len(arg.iter)] IN
        IF IsClip(last) THEN EndsWith(ret.query, TailText(last.len))
        ELSE EndsWith(ret.query, TailText(0))

\* C18: a leading clip of length l leaves the query cursor at l and the
\* reference cursor at pos - 1, so that the first reference byte copied is
\* the one at 1-based position pos; the query row starts with
\* "[head NNNNN base]" for l, the reference row with the same annotation for
\* pos, and the marker row starts with a blank header of the same width.
C18_LeadingClip ==
    (pc = "recovered" /\ IsClip(arg.iter[1])) =>
        LET s == RecoverStart(arg.iter, arg.pos)
            l == arg.iter[1].len
        IN  /\ RecoverAfter(1).seq1idx = l
            /\ RecoverAfter(1).seq2idx = arg.pos - 1
            /\ \A k \in 1..Len(arg.iter) :
                  (/\ arg.iter[k].op \in {"Align", "Deletion"}
                   /\ \A j \in 1..(k - 1) : arg.iter[j].op \notin {"Align", "Deletion"})
                      => RecoverAfter(k).seq2_with_gap[Len(RecoverAfter(k - 1).seq2_with_gap) + 1]
                             = arg.seq2[arg.pos]
            /\ StartsWith(ret.query, HeadText(l))
            /\ StartsWith(ret.reference, HeadText(arg.pos))
            /\ s.operations = [i \in 1..Len(s.operations) |-> " "]
            /\ StartsWith(ret.markers, s.operations)
            /\ Len(s.operations) = Len(HeadText(l))
            /\ Len(s.operations) = Len(HeadText(arg.pos))

---------------------------------------------------------------------------
(* lasttab::try_from.  The record type it reads (sam::Record) is a value   *)
(* with a query name, a reference name, a 1-based position, an orientation *)
(* flag, a decoded operation list and a list of attribute tags.  A tag is  *)
(* a text such as AS:i:12.  The length table is a function from reference  *)
(* names to lengths.                                                       *)

MkRecord(q_name, r_name, pos, forward, cigar, attr) ==
    [q_name |-> q_name, r_name |-> r_name, pos |-> pos, is_forward |-> forward,
     cigar |-> cigar, attr |-> attr]

Err(msg) == [err |-> msg]

IsErr(x) == "err" \in DOMAIN x

Ok(x) == [ok |-> x]

IsOk(x) == "ok" \in DOMAIN x

OverflowPanic == [panic |-> "attempt to subtract with overflow"]

\* What 0 - 1 wraps to when overflow checks are off.
USizeMax == "usize::MAX"

starts_with(text, prefix) ==
    /\ Len(text) >= Len(prefix)
    /\ SubSeq(text, 1, Len(prefix)) = prefix

\* attr().iter().find(|x| x.starts_with("AS")): the first such tag, if any.
RECURSIVE FindTag(_)
FindTag(attr) ==
    IF attr = <<>> THEN <<>>
    ELSE IF starts_with(Head(attr), <<"A", "S">>) THEN <<Head(attr)>>
    ELSE FindTag(Tail(attr))

\* split(':'): the fields between the colons, the last one being cur \o rest.
RECURSIVE SplitColon(_, _)
SplitColon(text, cur) ==
    IF text = <<>> THEN <<cur>>
    ELSE IF Head(text) = ":" THEN <<cur>> \o SplitColon(Tail(text), <<>>)
    ELSE SplitColon(Tail(text), Append(cur, Head(text)))

RECURSIVE DigitsValue(_, _)
DigitsValue(text, acc) ==
    IF text = <<>> THEN acc
    ELSE DigitsValue(Tail(text), acc * 10 + DigitValue(Head(text)))

\* parse::<i64>(): an optional sign and at least one digit, nothing else.
ParseI64(text) ==
    LET body == IF text # <<>> /\ Head(text) \in {"+", "-"} THEN Tail(text) ELSE text IN
    IF body = <<>> \/ \E i \in 1..Len(body) : ~IsAsciiDigit(body[i]) THEN Err("Parsing fail.")
    ELSE IF Head(text) = "-" THEN Ok(0 - DigitsValue(body, 0))
    ELSE Ok(DigitsValue(body, 0))

ParseScore(attr) ==
    LET found == FindTag(attr) IN
    IF found = <<>> THEN Err("AS tag is not valid.")
    ELSE LET fields == SplitColon(found[1], <<>>) IN
         IF Len(fields) < 3 THEN Err("AS tag does not have sufficient fields.")
         ELSE ParseI64(fields[3])

MkTabOp(kind, l) == [tab |-> kind, len |-> l]

\* The loop body with the clip arms recording no head clip.
ClassifyNoHead(st, o) ==
    IF IsErr(st) THEN st
    ELSE CASE o.op \in {"Align", "Match", "Mismatch"} ->
                [st EXCEPT !.alignment = Append(@, MkTabOp("Match", o.len))]
           [] o.op = "Insertion" ->
                [st EXCEPT !.alignment = Append(@, MkTabOp("Seq1In", o.len))]
           [] o.op = "Deletion" ->
                [st EXCEPT !.alignment = Append(@, MkTabOp("Seq2In", o.len))]
           [] o.op \in {"SoftClip", "HardClip"} ->
                [st EXCEPT !.tail_clip = o.len]
           [] o.op = "Skipped" -> Err("Skipped in Cigar.")
           [] o.op = "Padding" -> Err("Padding in Cigar.")

\* The loop body with the arms of Insertion and Deletion exchanged.
ClassifySwapped(st, o) ==
    IF IsErr(st) THEN st
    ELSE CASE o.op \in {"Align", "Match", "Mismatch"} ->
                [st EXCEPT !.alignment = Append(@, MkTabOp("Match", o.len))]
           [] o.op = "Insertion" ->
                [st EXCEPT !.alignment = Append(@, MkTabOp("Seq2In", o.len))]
           [] o.op = "Deletion" ->
                [st EXCEPT !.alignment = Append(@, MkTabOp("Seq1In", o.len))]
           [] o.op \in {"SoftClip", "HardClip"} /\ st.head_clip = 0 ->
                [st EXCEPT !.head_clip = o.len]
           [] o.op \in {"SoftClip", "HardClip"} /\ st.head_clip # 0 ->
                [st EXCEPT !.tail_clip = o.len]
           [] o.op = "Skipped" -> Err("Skipped in Cigar.")
           [] o.op = "Padding" -> Err("Padding in Cigar.")

Classify(st, o) ==
    IF IsErr(st) THEN st
    ELSE CASE o.op \in {"Align", "Match", "Mismatch"} ->
                [st EXCEPT !.alignment = Append(@, MkTabOp("Match", o.len))]
           [] o.op = "Insertion" ->
                [st EXCEPT !.alignment = Append(@, MkTabOp("Seq1In", o.len))]
           [] o.op = "Deletion" ->
                [st EXCEPT !.alignment = Append(@, MkTabOp("Seq2In", o.len))]
           [] o.op \in {"SoftClip", "HardClip"} /\ st.head_clip = 0 ->
                [st EXCEPT !.head_clip = o.len]
           [] o.op \in {"SoftClip", "HardClip"} /\ st.head_clip # 0 ->
                [st EXCEPT !.tail_clip = o.len]
           [] o.op = "Skipped" -> Err("Skipped in Cigar.")
           [] o.op = "Padding" -> Err("Padding in Cigar.")

RECURSIVE ClassifyLoop(_, _)
ClassifyLoop(st, cigar) ==
    IF cigar = <<>> THEN st
    ELSE ClassifyLoop(Classify(st, Head(cigar)), Tail(cigar))

\* The tallies summing every operation, whatever its kind.
RECURSIVE SumOverAll(_, _)
SumOverAll(cigar, kinds) ==
    IF cigar = <<>> THEN 0
    ELSE Head(cigar).len + SumOverAll(Tail(cigar), kinds)

RECURSIVE SumOver(_, _)
SumOver(cigar, kinds) ==
    IF cigar = <<>> THEN 0
    ELSE (IF Head(cigar).op \in kinds THEN Head(cigar).len ELSE 0) + SumOver(Tail(cigar), kinds)

MkAlignInfo(seqname, seqstart, matchlen, direction, seqlen) ==
    [seqname |-> seqname, seqstart |-> seqstart, matchlen |-> matchlen,
     direction |-> direction, seqlen |-> seqlen]

\* try_from after its first test.  value.pos() - 1 is a subtraction of
\* unsigned numbers: at pos = 0 it panics (overflow checks on) or wraps to
\* 2^64 - 1 (overflow checks off); wrapped is which of the two the build gives.
TryFromMapped(value, length, wrapped) ==
    LET score == ParseScore(value.attr)
        st == ClassifyLoop([alignment |-> <<>>, head_clip |-> 0, tail_clip |-> 0], value.cigar)
    IN  IF IsErr(score) THEN score
        ELSE IF IsErr(st) THEN st
        ELSE IF value.r_name \notin DOMAIN length THEN Err("Invalid Reference Name")
        ELSE IF value.pos = 0 /\ ~wrapped THEN OverflowPanic
        ELSE Ok([score |-> IF score.ok < 0 THEN 0 ELSE score.ok,
                 alignment |-> st.alignment,
                 eg2 |-> 0,
                 e |-> 0,
                 seq1_information |->
                     MkAlignInfo(value.r_name,
                                 IF value.pos = 0 THEN USizeMax ELSE value.pos - 1,
                                 SumOver(value.cigar, {"Deletion", "Align", "Match", "Mismatch"}),
                                 "Forward",
                                 length[value.r_name]),
                 seq2_information |->
                     MkAlignInfo(value.q_name,
                                 st.head_clip,
                                 SumOver(value.cigar, {"Insertion", "Align", "Match", "Mismatch"}),
                                 IF value.is_forward THEN "Forward" ELSE "Reverse",
                                 SumOver(value.cigar, {"HardClip", "SoftClip", "Insertion",
                                                       "Align", "Match", "Mismatch"}))])

\* try_from without the test of the position.
TryFromUnguarded(value, length, wrapped) == TryFromMapped(value, length, wrapped)

try_from(value, length, wrapped) ==
    IF value.pos = 0 THEN Err("Alignment Invalid")
    ELSE TryFromMapped(value, length, wrapped)

---------------------------------------------------------------------------
(* Single calls of lasttab::try_from (specification SpecLast).             *)

QueryName == <<113>>

TagAS(text) == <<"A", "S", ":", "i", ":">> \o text

TagNM == <<"N", "M", ":", "i", ":", "1">>

AttrPool ==
    { <<>>,
      <<TagNM>>,
      <<TagNM, TagAS(<<"1", "2">>)>>,
      <<TagAS(<<"-", "3">>), TagAS(<<"7">>)>>,
      <<TagAS(<<"x">>)>>,
      <<<<"A", "S", ":", "i">>>> }

RefLength == 10

ShortLength == 1

LengthTables ==
    { [n \in {NameA, NameB} |-> RefLength],
      [n \in {NameB} |-> RefLength],
      [n \in {NameA} |-> ShortLength] }

TabOpSet == { MkOp(k, n) : k \in OpKinds, n \in {1, MaxLen} }

TabOpLists == UNION { [1..n -> TabOpSet] : n \in 0..MaxOps }

\* CIGARs with clips at both ends, two clips at one end, a clip at the tail
\* only, and a clip of length 0.
TabExtraLists ==
    { <<MkOp("HardClip", 1), MkOp("SoftClip", 1), MkOp("Align", 1), MkOp("SoftClip", 1)>>,
      <<MkOp("HardClip", 2), MkOp("SoftClip", 3), MkOp("Align", 1), MkOp("SoftClip", 4),
        MkOp("HardClip", 1)>>,
      <<MkOp("SoftClip", 2), MkOp("Align", 3), MkOp("SoftClip", 1)>>,
      <<MkOp("Align", 10), MkOp("SoftClip", 5)>>,
      <<MkOp("SoftClip", 0), MkOp("Align", 1), MkOp("SoftClip", 2)>> }

LastInit ==
    /\ AggIdle
    /\ pc = "ready"
    /\ ret = <<>>
    /\ \E p \in 0..MaxPos, f \in BOOLEAN, attr \in AttrPool, length \in LengthTables :
          \E cigar \in TabOpLists \cup TabExtraLists :
              arg = [value |-> MkRecord(QueryName, NameA, p, f, cigar, attr),
                     length |-> length]

CallTryFrom ==
    /\ pc = "ready"
    /\ \E wrapped \in BOOLEAN : ret' = try_from(arg.value, arg.length, wrapped)
    /\ pc' = "converted"
    /\ UNCHANGED <<aggVars, arg>>

LastNext == CallTryFrom

SpecLast == LastInit /\ [][LastNext]_vars

---------------------------------------------------------------------------
(* Claims about lasttab::try_from (specification SpecLast).                *)

\* C19: try_from on a record whose position is 0 returns an Err value and
\* does not panic, whatever the CIGAR, the tags and the length table are.
C19_UnmappedIsErr ==
    (pc = "converted" /\ arg.value.pos = 0) =>
        /\ IsErr(ret)
        /\ ~IsPanic(ret)

\* A call at position 0 that every later step of the conversion would accept.
C19_Witness ==
    /\ pc = "converted"
    /\ arg.value.pos = 0
    /\ arg.value.attr = <<TagNM, TagAS(<<"1", "2">>)>>
    /\ arg.value.cigar = <<MkOp("Align", 1)>>
    /\ NameA \in DOMAIN arg.length
    /\ ret = Err("Alignment Invalid")

HasUnsupported(cigar) == \E k \in 1..Len(cigar) : cigar[k].op \in {"Skipped", "Padding"}

RECURSIVE ExpectedAlignment(_)
ExpectedAlignment(cigar) ==
    IF cigar = <<>> THEN <<>>
    ELSE LET o == Head(cigar)
             rest == ExpectedAlignment(Tail(cigar))
         IN  CASE o.op \in {"Align", "Match", "Mismatch"} -> <<MkTabOp("Match", o.len)>> \o rest
               [] o.op = "Insertion" -> <<MkTabOp("Seq1In", o.len)>> \o rest
               [] o.op = "Deletion" -> <<MkTabOp("Seq2In", o.len)>> \o rest
               [] OTHER -> rest

\* C20: the operation list of a produced record is the CIGAR in order, with
\* Match(l) for each Align, Match or Mismatch run, Seq1In(l) for each
\* Insertion, Seq2In(l) for each Deletion and nothing for a clip; a CIGAR
\* with a Skipped or Padding run gives Err and no record.
C20_Classification ==
    pc = "converted" =>
        /\ IsOk(ret) => ret.ok.alignment = ExpectedAlignment(arg.value.cigar)
        /\ HasUnsupported(arg.value.cigar) => IsErr(ret)

\* A produced record whose CIGAR is an Insertion followed by a Deletion.
C20_Witness ==
    /\ pc = "converted"
    /\ arg.value.cigar = <<MkOp("Insertion", 1), MkOp("Deletion", MaxLen)>>
    /\ IsOk(ret)
    /\ ret.ok.alignment = <<MkTabOp("Seq1In", 1), MkTabOp("Seq2In", MaxLen)>>

---------------------------------------------------------------------------
(* Sam::mapped_region on the decoded operations of a record: the fold and  *)
(* the region of the query it gives.                                       *)

MappedStep(acc, x) ==
    CASE IsClip(x) /\ acc[4] -> <<acc[1] + x.len, acc[2], acc[3], acc[4]>>
      [] IsClip(x) /\ ~acc[4] -> <<acc[1], acc[2], acc[3] + x.len, acc[4]>>
      [] x.op \in {"Align", "Insertion", "Match", "Mismatch"} ->
            <<acc[1], acc[2] + x.len, acc[3], FALSE>>
      [] OTHER -> acc

RECURSIVE MappedFold(_, _)
MappedFold(acc, ops) ==
    IF ops = <<>> THEN acc ELSE MappedFold(MappedStep(acc, Head(ops)), Tail(ops))

MappedRegionOf(ops) ==
    LET acc == MappedFold(<<0, 0, 0, TRUE>>, ops) IN <<acc[1], acc[1] + acc[2]>>

---------------------------------------------------------------------------
(* Claims about the two sides of a converted record (SpecLast).            *)

IsQueryOp(o) == o.op \in {"Align", "Match", "Mismatch", "Insertion"}

IsReferenceOp(o) == o.op \in {"Align", "Match", "Mismatch", "Deletion"}

IsNonZero(o) == o.len # 0

ClipsOf(cigar) == SelectSeq(cigar, IsClip)

DirectionOf(forward) == IF forward THEN "Forward" ELSE "Reverse"

\* C21 as stated: in a produced record the query side has start = the length
\* of the first clip of the CIGAR (0 if none), matchlen = the sum of the
\* Align, Match, Mismatch and Insertion lengths, seqlen = head clip + that
\* sum + the length of a later clip (0 if none), and direction Forward
\* exactly when the record is forward.
C21_QuerySide ==
    (pc = "converted" /\ IsOk(ret)) =>
        LET clips == ClipsOf(arg.value.cigar)
            head == IF clips = <<>> THEN 0 ELSE clips[1].len
            tails == IF Len(clips) <= 1 THEN {0} ELSE { clips[k].len : k \in 2..Len(clips) }
            tally == SumLen(SelectSeq(arg.value.cigar, IsQueryOp))
            q == ret.ok.seq2_information
        IN  /\ q.seqstart = head
            /\ q.matchlen = tally
            /\ \E t \in tails : q.seqlen = head + tally + t
            /\ q.direction = DirectionOf(arg.value.is_forward)

\* C21 as amended: start = the length of the first clip of non-zero length
\* (0 if none), matchlen = the query tally, seqlen = the query tally + the
\* lengths of all clips, direction Forward exactly when the record is forward.
C21_QuerySideAllClips ==
    (pc = "converted" /\ IsOk(ret)) =>
        LET clips == SelectSeq(ClipsOf(arg.value.cigar), IsNonZero)
            head == IF clips = <<>> THEN 0 ELSE clips[1].len
            tally == SumLen(SelectSeq(arg.value.cigar, IsQueryOp))
            q == ret.ok.seq2_information
        IN  /\ q.seqstart = head
            /\ q.matchlen = tally
            /\ q.seqlen = tally + SumLen(clips)
            /\ q.direction = DirectionOf(arg.value.is_forward)

\* A reverse record with two clips before and two after the aligned run.
C21_Witness ==
    /\ pc = "converted"
    /\ IsOk(ret)
    /\ ~arg.value.is_forward
    /\ Len(ClipsOf(arg.value.cigar)) = 4
    /\ ret.ok.seq2_information = MkAlignInfo(QueryName, 2, 1, "Reverse", 11)

\* C22: in a produced record the reference side has start = pos - 1,
\* matchlen = the sum of the Align, Match, Mismatch and Deletion lengths,
\* direction Forward and seqlen = the table's length of the reference name;
\* a reference name the table does not hold gives Err.
C22_ReferenceSide ==
    pc = "converted" =>
        /\ IsOk(ret) =>
              LET r == ret.ok.seq1_information IN
              /\ r.seqname = arg.value.r_name
              /\ r.seqstart = arg.value.pos - 1
              /\ r.matchlen = SumLen(SelectSeq(arg.value.cigar, IsReferenceOp))
              /\ r.direction = "Forward"
              /\ arg.value.r_name \in DOMAIN arg.length
              /\ r.seqlen = arg.length[arg.value.r_name]
        /\ arg.value.r_name \notin DOMAIN arg.length => IsErr(ret)

\* A produced record at position 2 whose CIGAR has a Deletion and an Insertion.
C22_Witness ==
    /\ pc = "converted"
    /\ IsOk(ret)
    /\ arg.value.pos = 2
    /\ arg.value.cigar = <<MkOp("Deletion", MaxLen), MkOp("Insertion", 1)>>
    /\ ret.ok.seq1_information = MkAlignInfo(NameA, 1, MaxLen, "Forward", RefLength)

\* C28: in a produced record the query-side start is the number of query
\* bases clipped before the first aligned operation, the first component of
\* Sam::mapped_region for the same CIGAR (0 for 10M5S).
C28_QueryStartIsLeadingClip ==
    (pc = "converted" /\ IsOk(ret)) =>
        ret.ok.seq2_information.seqstart = MappedRegionOf(arg.value.cigar)[1]

---------------------------------------------------------------------------
(* LastTAB::from_line, AlignInfo::from_splits, Op::from_string and the     *)
(* accessors of LastTAB.  A line is a text; a usize that wrapped around is *)
(* written as the negative number k that stands for 2^64 + k, so that      *)
(* wrapping arithmetic is integer arithmetic on these numbers.  The f64    *)
(* statistics are carried as the text they were parsed from.               *)

None == [none |-> "None"]

IsNone(x) == "none" \in DOMAIN x

UnwrapPanic == [panic |-> "unwrap on None"]

\* str::split(sep): the fields between the separators, one more than there
\* are separators.
Split(text, sep) ==
    LET seps == { i \in 1..Len(text) : text[i] = sep }
        n == Cardinality(seps) + 1
        SepAt(k) == CHOOSE i \in seps : Cardinality({ j \in seps : j < i }) = k - 1
        first(k) == IF k = 1 THEN 1 ELSE SepAt(k - 1) + 1
        last(k) == IF k = n THEN Len(text) ELSE SepAt(k) - 1
    IN  [k \in 1..n |-> SubSeq(text, first(k), last(k))]

Contains(text, ch) == \E i \in 1..Len(text) : text[i] = ch

\* parse::<usize>() and parse::<u64>(): an optional '+' and at least one digit.
ParseUsize(text) ==
    LET body == IF text # <<>> /\ Head(text) = "+" THEN Tail(text) ELSE text IN
    IF body = <<>> \/ \E i \in 1..Len(body) : ~IsAsciiDigit(body[i]) THEN None
    ELSE Ok(DigitsValue(body, 0))

\* parse::<f64>() on decimal texts: a mantissa with at least one digit and at
\* most one point, and an optional exponent.  (inf and nan are no inputs.)
IsFloatText(text) ==
    LET IsDigits(t) == t # <<>> /\ \A i \in 1..Len(t) : IsAsciiDigit(t[i])
        Unsigned(t) == IF t # <<>> /\ Head(t) \in {"+", "-"} THEN Tail(t) ELSE t
        pieces == IF Contains(text, "e") THEN Split(text, "e") ELSE Split(text, "E")
        mant == Unsigned(pieces[1])
        halves == Split(mant, ".")
    IN  /\ Len(pieces) <= 2
        /\ Len(halves) <= 2
        /\ \A h \in 1..Len(halves) : halves[h] = <<>> \/ IsDigits(halves[h])
        /\ \E h \in 1..Len(halves) : halves[h] # <<>>
        /\ Len(pieces) = 2 => IsDigits(Unsigned(pieces[2]))

from_splits(splits) ==
    LET seqstart == ParseUsize(splits[2])
        matchlen == ParseUsize(splits[3])
        seqlen == ParseUsize(splits[5])
    IN  IF IsNone(seqstart) \/ IsNone(matchlen) \/ IsNone(seqlen) THEN None
        ELSE MkAlignInfo(splits[1], seqstart.ok, matchlen.ok,
                         IF splits[4] = <<"+">> THEN "Forward" ELSE "Reverse", seqlen.ok)

\* Op::from_string with the two halves of a colon token exchanged.
OpFromStringSwapped(res, input) ==
    IF IsPanic(res) THEN res
    ELSE IF Contains(input, ":")
    THEN LET halves == Split(input, ":")
             seq1 == ParseUsize(halves[1])
             seq2 == ParseUsize(halves[2])
         IN  IF IsNone(seq1) \/ IsNone(seq2) THEN UnwrapPanic
             ELSE [ops |-> res.ops
                       \o (IF seq1.ok # 0 THEN <<MkTabOp("Seq1In", seq1.ok)>> ELSE <<>>)
                       \o (IF seq2.ok # 0 THEN <<MkTabOp("Seq2In", seq2.ok)>> ELSE <<>>)]
    ELSE LET n == ParseUsize(input) IN
         IF IsNone(n) THEN UnwrapPanic
         ELSE [ops |-> Append(res.ops, MkTabOp("Match", n.ok))]

\* res is [ops |-> the vector] or the panic of an earlier token.
OpFromString(res, input) ==
    IF IsPanic(res) THEN res
    ELSE IF Contains(input, ":")
    THEN LET halves == Split(input, ":")
             seq1 == ParseUsize(halves[1])
             seq2 == ParseUsize(halves[2])
         IN  IF IsNone(seq1) \/ IsNone(seq2) THEN UnwrapPanic
             ELSE [ops |-> res.ops
                       \o (IF seq1.ok # 0 THEN <<MkTabOp("Seq2In", seq1.ok)>> ELSE <<>>)
                       \o (IF seq2.ok # 0 THEN <<MkTabOp("Seq1In", seq2.ok)>> ELSE <<>>)]
    ELSE LET n == ParseUsize(input) IN
         IF IsNone(n) THEN UnwrapPanic
         ELSE [ops |-> Append(res.ops, MkTabOp("Match", n.ok))]

RECURSIVE FoldTokens(_, _)
FoldTokens(res, tokens) ==
    IF tokens = <<>> THEN res
    ELSE FoldTokens(OpFromString(res, Head(tokens)), Tail(tokens))

\* One of the two trailing fields: E=.. sets e, EG2=.. sets eg2, a field
\* that is neither changes nothing.  st is [e, eg2] or a panic.
ReadStatistic(st, field) ==
    IF IsPanic(st) THEN st
    ELSE IF starts_with(field, <<"E", "=">>)
    THEN IF IsFloatText(SubSeq(field, 3, Len(field)))
         THEN [st EXCEPT !.e = SubSeq(field, 3, Len(field))] ELSE [panic |-> "invalid float literal"]
    ELSE IF starts_with(field, <<"E", "G", "2", "=">>)
    THEN IF IsFloatText(SubSeq(field, 5, Len(field)))
         THEN [st EXCEPT !.eg2 = SubSeq(field, 5, Len(field))] ELSE [panic |-> "invalid float literal"]
    ELSE st

from_line(text) ==
    LET line == Split(text, "\t")
        score == ParseUsize(line[1])
    IN  IF IsNone(score) THEN None
        ELSE IF Len(line) < 6 THEN IndexPanic
        ELSE LET seq1_information == from_splits(SubSeq(line, 2, 6)) IN
        IF IsNone(seq1_information) THEN None
        ELSE IF Len(line) < 11 THEN IndexPanic
        ELSE LET seq2_information == from_splits(SubSeq(line, 7, 11)) IN
        IF IsNone(seq2_information) THEN None
        ELSE IF Len(line) < 12 THEN IndexPanic
        ELSE LET alignment == FoldTokens([ops |-> <<>>], Split(line[12], ",")) IN
        IF IsPanic(alignment) THEN alignment
        ELSE LET dummy == [eg2 |-> <<"2">>, e |-> <<"3">>]
                 st == IF Len(line) > 13
                       THEN ReadStatistic(ReadStatistic(dummy, line[13]), line[14])
                       ELSE dummy
             IN  IF IsPanic(st) THEN st
                 ELSE [score |-> score.ok,
                       seq1_information |-> seq1_information,
                       seq2_information |-> seq2_information,
                       alignment |-> alignment.ops,
                       e |-> st.e,
                       eg2 |-> st.eg2]

\* seqlen - matchlen - seqstart on usize: below zero it panics (overflow
\* checks on) or wraps around (overflow checks off); wrapped says which.
\* The value returned is Ok(n), a panic is the panic.
seqstart_from_forward(info, wrapped) ==
    IF info.direction = "Forward" THEN Ok(info.seqstart)
    ELSE IF info.seqlen - info.matchlen - info.seqstart < 0 /\ ~wrapped THEN OverflowPanic
    ELSE Ok(info.seqlen - info.matchlen - info.seqstart)

seq1_start_from_forward(tab, wrapped) == seqstart_from_forward(tab.seq1_information, wrapped)

seq2_start_from_forward(tab, wrapped) == seqstart_from_forward(tab.seq2_information, wrapped)

seq1_end_from_forward(tab, wrapped) ==
    LET s == seq1_start_from_forward(tab, wrapped) IN
    IF IsPanic(s) THEN s ELSE Ok(s.ok + tab.seq1_information.matchlen)

seq2_end_from_forward(tab, wrapped) ==
    LET s == seq2_start_from_forward(tab, wrapped) IN
    IF IsPanic(s) THEN s ELSE Ok(s.ok + tab.seq2_information.matchlen)

RECURSIVE alignment_length(_)
alignment_length(alignment) ==
    IF alignment = <<>> THEN 0 ELSE Head(alignment).len + alignment_length(Tail(alignment))

---------------------------------------------------------------------------
(* Single calls of LastTAB::from_line followed by the accessors of the     *)
(* record it returns (specification SpecLine).                             *)

MaxCoord == 2

RECURSIVE JoinTab(_)
JoinTab(fields) ==
    IF Len(fields) = 1 THEN fields[1]
    ELSE fields[1] \o <<"\t">> \o JoinTab(Tail(fields))

\* The line of the test last_parse_test.
LAST_INPUT ==
  <<"1", "0", "3", "5", "\t", "t", "i", "g", "0", "0", "0", "0", "0", "0", "0", "1",
      "\t", "9", "8", "0", "4", "5", "\t", "5", "3", "9", "\t", "+", "\t", "2",
      "6", "1", "0", "2", "6", "\t", "m", "5", "4", "1", "1", "3", "_", "1", "6",
      "0", "9", "1", "3", "_", "1", "8", "4", "9", "4", "9", "/", "5", "5", "7",
      "0", "6", "6", "7", "/", "0", "_", "1", "1", "2", "5", "\t", "4", "\t", "5",
      "2", "7", "\t", "-", "\t", "1", "1", "2", "5", "\t", "1", "0", ",", "1", ":",
      "0", ",", "5", ",", "1", ":", "0", ",", "3", ",", "1", ":", "0", ",", "5",
      ",", "0", ":", "1", ",", "3", "\t", "E", "G", "2", "=", "8", ".", "2", "e",
      "-", "8", "6", "\t", "E", "=", "6", ".", "6", "e", "-", "9", "5">>

SideFields(name, start, matchlen, sign, seqlen) ==
    <<name, ToDecimal(start), ToDecimal(matchlen), <<sign>>, ToDecimal(seqlen)>>

\* Reference sides: in range, past the end of the sequence, with a field that is no number.
Seq1Sides ==
    { SideFields(<<"r">>, 1, 2, "+", 9),
      SideFields(<<"r">>, 3, 2, "-", 4),
      <<<<"r">>, <<"1">>, <<"-", "2">>, <<"+">>, <<"9">>>> }

Seq2Sides ==
    { SideFields(<<"q">>, s, m, d, l) : s \in 0..MaxCoord, m \in 0..MaxCoord,
                                        d \in {"+", "-"}, l \in 0..MaxCoord }

ScoreFields == { <<"7">>, <<"x">> }

AlignmentFields ==
    { <<"2">>,
      <<"1", ":", "0", ",", "2">>,
      <<"0", ":", "1", ",", "0", ":", "0">>,
      <<"1", ":", "2">>,
      <<"1", ",", "x">>,
      <<"1", ":">> }

StatisticFields ==
    { <<>>,
      << <<"E", "G", "2", "=", "8", ".", "2", "e", "-", "8", "6">>,
         <<"E", "=", "6", ".", "6", "e", "-", "9", "5">> >>,
      << <<"E", "=", "1">>, <<"E", "G", "2", "=", "x">> >>,
      << <<"E", "=", "1">> >> }

\* The test line, the example of the Strand::Reverse documentation (length
\* 90, start 10, alignment length 30), and lines that end early.
OtherLines ==
    { LAST_INPUT,
      JoinTab(<<<<"7">>>> \o SideFields(<<"r">>, 0, 30, "+", 90)
                  \o SideFields(<<"q">>, 10, 30, "-", 90) \o <<<<"3", "0">>>>),
      JoinTab(<<<<"7">>>> \o SideFields(<<"r">>, 0, 1, "+", 9)),
      JoinTab(<<<<"7">>>> \o SideFields(<<"r">>, 0, 1, "+", 9)
                  \o SideFields(<<"q">>, 0, 1, "+", 9)),
      JoinTab(<<<<"7">>, <<"r">>>>),
      <<>> }

LineInit ==
    /\ AggIdle
    /\ pc = "ready"
    /\ ret = <<>>
    /\ \/ \E line \in OtherLines : arg = [line |-> line]
       \/ \E score \in ScoreFields, seq1 \in Seq1Sides, seq2 \in Seq2Sides :
             \E alignment \in AlignmentFields, statistics \in StatisticFields :
                 arg = [line |-> JoinTab(<<score>> \o seq1 \o seq2 \o <<alignment>>
                                             \o statistics)]

CallFromLine ==
    /\ pc = "ready"
    /\ ret' = from_line(arg.line)
    /\ pc' = IF IsPanic(ret') THEN "panicked" ELSE IF IsNone(ret') THEN "none" ELSE "parsed"
    /\ UNCHANGED <<aggVars, arg>>

\* The accessors read the record; ret keeps it next to what they return.
CallAccessors ==
    /\ pc = "parsed"
    /\ \E wrapped \in BOOLEAN :
          ret' = [tab |-> ret,
                  seq1_start_from_forward |-> seq1_start_from_forward(ret, wrapped),
                  seq1_end_from_forward |-> seq1_end_from_forward(ret, wrapped),
                  seq2_start_from_forward |-> seq2_start_from_forward(ret, wrapped),
                  seq2_end_from_forward |-> seq2_end_from_forward(ret, wrapped),
                  alignment_length |-> alignment_length(ret.alignment)]
    /\ pc' = "projected"
    /\ UNCHANGED <<aggVars, arg>>

LineNext == CallFromLine \/ CallAccessors

SpecLine == LineInit /\ [][LineNext]_vars

---------------------------------------------------------------------------
(* Claims about the records of from_line and their accessors (SpecLine).   *)

InRangeInfo(info) == info.seqstart + info.matchlen <= info.seqlen

\* C23: every AlignInfo that from_line builds satisfies
\* start + matchlen <= seqlen.
C23_AlignInfoInRange ==
    pc = "parsed" =>
        /\ InRangeInfo(ret.seq1_information)
        /\ InRangeInfo(ret.seq2_information)

ProjectionOf(info) ==
    IF info.direction = "Forward" THEN info.seqstart
    ELSE info.seqlen - info.matchlen - info.seqstart

ProjectedAs(info, start, end) ==
    /\ IsOk(start)
    /\ IsOk(end)
    /\ start.ok \in Nat
    /\ start.ok = ProjectionOf(info)
    /\ end.ok = start.ok + info.matchlen
    /\ info.direction = "Reverse" => start.ok + info.matchlen = info.seqlen - info.seqstart

\* C24: the forward start of each side is start when the strand is Forward
\* and seqlen - matchlen - start when it is Reverse, the forward end is the
\* forward start + matchlen (594 and 1121 for the query side of the test
\* line), and the record is the one that was parsed.
C24_ForwardProjection ==
    pc = "projected" =>
        /\ ProjectedAs(ret.tab.seq1_information,
                       ret.seq1_start_from_forward, ret.seq1_end_from_forward)
        /\ ProjectedAs(ret.tab.seq2_information,
                       ret.seq2_start_from_forward, ret.seq2_end_from_forward)
        /\ arg.line = LAST_INPUT =>
              /\ ret.seq2_start_from_forward = Ok(594)
              /\ ret.seq2_end_from_forward = Ok(1121)
        /\ ret.tab = from_line(arg.line)

DocumentedAs(info, start) ==
    info.direction = "Reverse" =>
        /\ IsOk(start)
        /\ start.ok = info.seqlen - info.seqstart - info.matchlen + 1

\* C25: the forward start of a Reverse side is seqlen - start - matchlen + 1:
\* 51 for length 90, start 10 and alignment length 30.
C25_DocumentedProjection ==
    pc = "projected" =>
        /\ DocumentedAs(ret.tab.seq1_information, ret.seq1_start_from_forward)
        /\ DocumentedAs(ret.tab.seq2_information, ret.seq2_start_from_forward)
        /\ ret.tab.seq2_information = MkAlignInfo(<<"q">>, 10, 30, "Reverse", 90)
              => ret.seq2_start_from_forward = Ok(51)

TokenOps(token) ==
    IF Contains(token, ":")
    THEN LET a == ParseUsize(Split(token, ":")[1]).ok
             b == ParseUsize(Split(token, ":")[2]).ok
         IN  (IF a # 0 THEN <<MkTabOp("Seq2In", a)>> ELSE <<>>)
                 \o (IF b # 0 THEN <<MkTabOp("Seq1In", b)>> ELSE <<>>)
    ELSE <<MkTabOp("Match", ParseUsize(token).ok)>>

RECURSIVE TokensOps(_)
TokensOps(tokens) ==
    IF tokens = <<>> THEN <<>> ELSE TokenOps(Head(tokens)) \o TokensOps(Tail(tokens))

TabOf == IF pc = "projected" THEN ret.tab ELSE ret

\* C27: the operation list of a parsed record is the decoding of the tokens
\* of the operation field in order, a bare integer n as Match(n), a token
\* a:b as Seq2In(a) if a # 0 followed by Seq1In(b) if b # 0; the operation
\* field of the test line decodes to the nine operations of the test, and
\* alignment_length is the sum of the decoded lengths, 30 for the test line.
C27_DecodeTokens ==
    pc \in {"parsed", "projected"} =>
        /\ TabOf.alignment = TokensOps(Split(Split(arg.line, "\t")[12], ","))
        /\ arg.line = LAST_INPUT =>
              TabOf.alignment =
                  <<MkTabOp("Match", 10), MkTabOp("Seq2In", 1), MkTabOp("Match", 5),
                    MkTabOp("Seq2In", 1), MkTabOp("Match", 3), MkTabOp("Seq2In", 1),
                    MkTabOp("Match", 5), MkTabOp("Seq1In", 1), MkTabOp("Match", 3)>>
        /\ pc = "projected" =>
              /\ ret.alignment_length = SumLen(TabOf.alignment)
              /\ arg.line = LAST_INPUT => ret.alignment_length = 30

\* The test line, parsed, with its alignment length read.
C27_Witness ==
    /\ pc = "projected"
    /\ arg.line = LAST_INPUT
    /\ Len(ret.tab.alignment) = 9
    /\ ret.alignment_length = 30

---------------------------------------------------------------------------
(* PartialEq for LastTAB (specification SpecEq).  A comparison returns     *)
(* Ok(TRUE), Ok(FALSE) or the panic of a projection it evaluated.          *)

\* name == name && start_from_forward == start_from_forward && end == end,
\* evaluated from the left, a false conjunct ending the evaluation.
SideEq(a, b, wrapped) ==
    IF a.seqname # b.seqname THEN Ok(FALSE)
    ELSE LET sa == seqstart_from_forward(a, wrapped)
             sb == seqstart_from_forward(b, wrapped)
         IN  IF IsPanic(sa) THEN sa
             ELSE IF IsPanic(sb) THEN sb
             ELSE IF sa.ok # sb.ok THEN Ok(FALSE)
             ELSE Ok(sa.ok + a.matchlen = sb.ok + b.matchlen)

eq(self, other, wrapped) ==
    LET seq1 == SideEq(self.seq1_information, other.seq1_information, wrapped)
        seq2 == SideEq(self.seq2_information, other.seq2_information, wrapped)
        rev1 == SideEq(self.seq1_information, other.seq2_information, wrapped)
        rev2 == SideEq(self.seq2_information, other.seq1_information, wrapped)
    IN  IF IsPanic(seq1) THEN seq1
        ELSE IF IsPanic(seq2) THEN seq2
        ELSE IF IsPanic(rev1) THEN rev1
        ELSE IF IsPanic(rev2) THEN rev2
        ELSE Ok((seq1.ok /\ seq2.ok) \/ (rev1.ok /\ rev2.ok))

MkLastTAB(score, seq1, seq2) ==
    [score |-> score, seq1_information |-> seq1, seq2_information |-> seq2,
     alignment |-> <<MkTabOp("Match", seq1.matchlen)>>, e |-> <<"3">>, eg2 |-> <<"2">>]

\* Sides of two names: two that differ in strand and agree in their forward
\* region, others that differ in it, and one that ends past its sequence.
EqSides ==
    { MkAlignInfo(<<"a">>, 1, 1, "Forward", 3),
      MkAlignInfo(<<"a">>, 1, 1, "Reverse", 3),
      MkAlignInfo(<<"a">>, 0, 1, "Forward", 3),
      MkAlignInfo(<<"b">>, 1, 1, "Forward", 3),
      MkAlignInfo(<<"b">>, 0, 2, "Reverse", 2),
      MkAlignInfo(<<"a">>, 2, 2, "Reverse", 3) }

EqInit ==
    /\ AggIdle
    /\ pc = "ready"
    /\ ret = <<>>
    /\ \E x1 \in EqSides, x2 \in EqSides, y1 \in EqSides, y2 \in EqSides :
          \E z1 \in EqSides, z2 \in EqSides :
              arg = [x |-> MkLastTAB(1, x1, x2), y |-> MkLastTAB(2, y1, y2),
                     z |-> MkLastTAB(3, z1, z2)]

CallEq ==
    /\ pc = "ready"
    /\ \E wrapped \in BOOLEAN :
          ret' = [xx |-> eq(arg.x, arg.x, wrapped),
                  xy |-> eq(arg.x, arg.y, wrapped),
                  yx |-> eq(arg.y, arg.x, wrapped),
                  yz |-> eq(arg.y, arg.z, wrapped),
                  xz |-> eq(arg.x, arg.z, wrapped),
                  xs |-> eq(arg.x,
                            [arg.x EXCEPT !.seq1_information = arg.x.seq2_information,
                                          !.seq2_information = arg.x.seq1_information],
                            wrapped)]
    /\ pc' = "compared"
    /\ UNCHANGED <<aggVars, arg>>

SpecEq == EqInit /\ [][CallEq]_vars

---------------------------------------------------------------------------
(* Claim about the equality of LastTAB (SpecEq).                           *)

TripleOf(info) == <<info.seqname, ProjectionOf(info), ProjectionOf(info) + info.matchlen>>

TriplesMatch(x, y) ==
    \/ /\ TripleOf(x.seq1_information) = TripleOf(y.seq1_information)
       /\ TripleOf(x.seq2_information) = TripleOf(y.seq2_information)
    \/ /\ TripleOf(x.seq1_information) = TripleOf(y.seq2_information)
       /\ TripleOf(x.seq2_information) = TripleOf(y.seq1_information)

\* C26: x == y exactly when the (name, forward start, forward end) triples
\* of x and y match side by side or swapped; a record equals itself and the
\* record with its sides exchanged; the relation is symmetric and transitive.
C26_EqualityIsSymmetric ==
    pc = "compared" =>
        /\ \A k \in DOMAIN ret : IsOk(ret[k])
        /\ ret.xy.ok = TriplesMatch(arg.x, arg.y)
        /\ ret.xx.ok
        /\ ret.xs.ok
        /\ ret.xy.ok = ret.yx.ok
        /\ (ret.xy.ok /\ ret.yz.ok) => ret.xz.ok

---------------------------------------------------------------------------
(* fasta::Reader::read under fasta::Records (specification SpecFasta).     *)
(* arg is the reader with the record it fills: stream holds the lines the  *)
(* BufReader has not given out yet, line is the field Reader::line, record *)
(* is the Record handed to read, calls is the parity of the number of      *)
(* read_line calls made so far.  ret is what next returned last.  A read   *)
(* of the stream is taken to succeed: the stream is valid UTF-8 text.      *)

MaxLines == 3

\* str::split_whitespace: the maximal runs of characters that are no whitespace.
RECURSIVE SplitWhitespace(_, _)
SplitWhitespace(text, cur) ==
    IF text = <<>> THEN (IF cur = <<>> THEN <<>> ELSE <<cur>>)
    ELSE IF Head(text) \in {" ", "\t", "\n"}
    THEN (IF cur = <<>> THEN <<>> ELSE <<cur>>) \o SplitWhitespace(Tail(text), <<>>)
    ELSE SplitWhitespace(Tail(text), Append(cur, Head(text)))

RECURSIVE TrimStartMatches(_, _)
TrimStartMatches(text, ch) ==
    IF text # <<>> /\ Head(text) = ch THEN TrimStartMatches(Tail(text), ch) ELSE text

DefaultRecord == [id |-> <<>>, desc |-> None, seq |-> <<>>]

is_empty(record) == record.id = <<>> /\ record.seq = <<>>

\* BufRead::read_line: the next line with its newline, nothing at the end of
\* the input; the text is appended to the buffer.
ReadLine(reader) ==
    IF reader.stream = <<>> THEN [reader EXCEPT !.calls = 1 - @]
    ELSE [reader EXCEPT !.line = @ \o Head(reader.stream), !.stream = Tail(@),
                        !.calls = 1 - @]

LinePool ==
    { <<">", "a", "\n">>,
      <<">", "b", " ", "d", "\n">>,
      <<"A", "C", "\n">>,
      <<">", "\n">>,
      <<"\n">> }

Streams == UNION { [1..n -> LinePool] : n \in 0..MaxLines }

FastaInit ==
    /\ AggIdle
    /\ pc = "idle"
    /\ ret = <<>>
    /\ \E stream \in Streams :
          arg = [stream |-> stream, line |-> <<>>, record |-> DefaultRecord, calls |-> 0]

\* Records::next up to the loop of read: a fresh record, the header line
\* read if Reader::line is empty, Err without a '>' at its start.
RecordsNext ==
    /\ pc \in {"idle", "yielded"}
    /\ LET reader == IF arg.line = <<>> THEN ReadLine(arg) ELSE arg IN
       IF ~starts_with(reader.line, <<">">>)
       THEN /\ arg' = [reader EXCEPT !.record = DefaultRecord]
            /\ ret' = [some |-> Err("Other")]
            /\ pc' = "yielded"
       ELSE LET header == SplitWhitespace(reader.line, <<>>) IN
            /\ arg' = [reader EXCEPT
                          !.record = [id |-> TrimStartMatches(header[1], ">"),
                                      desc |-> IF Len(header) >= 2 THEN Ok(header[2]) ELSE None,
                                      seq |-> <<>>]]
            /\ ret' = ret
            /\ pc' = "loop"
    /\ UNCHANGED aggVars

\* One turn of the loop of read, and the return of read and next when the
\* line read starts with '>'.
ReadLoop ==
    /\ pc = "loop"
    /\ LET reader == ReadLine([arg EXCEPT !.line = <<>>]) IN
       IF starts_with(reader.line, <<">">>)
       THEN /\ arg' = reader
            /\ ret' = IF is_empty(reader.record) THEN None
                      ELSE [some |-> Ok(reader.record)]
            /\ pc' = IF is_empty(reader.record) THEN "none" ELSE "yielded"
       ELSE /\ arg' = [reader EXCEPT !.record.seq = @ \o reader.line]
            /\ ret' = ret
            /\ pc' = "loop"
    /\ UNCHANGED aggVars

FastaNext == RecordsNext \/ ReadLoop

SpecFasta == FastaInit /\ [][FastaNext]_vars /\ WF_vars(FastaNext)

---------------------------------------------------------------------------
(* Claim about fasta::Reader::read (SpecFasta).                            *)

\* C29: every call of read returns, the one that reads the last record of
\* the stream too, and the iteration of Records comes to None.
C29_ReadTerminates ==
    /\ (pc = "loop") ~> (pc # "loop")
    /\ <>(pc = "none")

=============================================================================
